---------------------------- MODULE Spec2Model ----------------------------
(***************************************************************************)
(* Model of tilia/media/player/base.py: the Player transport state         *)
(* machine, its polling timer and the loop-region engine.                  *)
(*                                                                         *)
(* Time values are floats in the source.  Here they are integers counting  *)
(* tenths of a second, so that E = 0.2 s is 2 and the literal 1.0 of the   *)
(* boundary snap is 10.                                                    *)
(***************************************************************************)
EXTENDS Integers, Sequences, FiniteSets, TLC

VARIABLES
    is_media_loaded, duration, playback_start, playback_end, current_time,
    media_path, is_playing, is_looping, loop_start, loop_end, loop_elements,
    qtimer,          \* TRUE while the QTimer is started
    engine_time,     \* what _engine_get_current_time() reports
    engine_playing,  \* the engine is playing (_engine_play / _engine_pause / _engine_stop)
    engine_loop,     \* the engine's native loop flag (_engine_loop)
    probing,         \* a duration callback of the engine is outstanding
    elements,        \* the timeline elements reached through Get.TIMELINE_UI_ELEMENT
    posts,           \* notifications posted by the last handler, in order
    seen,            \* what the listeners of each of them find in the Player
    last,            \* the last handler that ran, with its arguments
    raised,          \* the last handler was left by an exception
    cc_elements,     \* _check_loop_continuity: the local list `elements`
    cc_result        \* _check_loop_continuity: its return value

vars == << is_media_loaded, duration, playback_start, playback_end,
           current_time, media_path, is_playing, is_looping, loop_start,
           loop_end, loop_elements, qtimer, engine_time, engine_playing,
           engine_loop, probing,
           elements, posts, seen, last, raised, cc_elements, cc_result >>

---------------------------------------------------------------------------
(* Program constants *)

UPDATE_INTERVAL == 100

\* E = UPDATE_INTERVAL / 500 seconds = 0.2 s, in tenths of a second
E == (UPDATE_INTERVAL * 10) \div 500

\* the literal 1.0 (seconds) in `abs(end_time - duration) < 1.0`
SnapWindow == 10

(* Bounds *)

MaxTime == 5         \* the length of the media "short.ogg", in tenths of a second
NumElements == 3     \* the timeline starts with ids 1..NumElements
MaxStep == 2         \* the engine advances at most this much between ticks
MaxPoint == 5        \* interval endpoints fed to the continuity check are 0..MaxPoint
MaxIntervals == 3    \* at most this many intervals are fed to the continuity check

---------------------------------------------------------------------------
(* Helpers *)

Min(a, b) == IF a < b THEN a ELSE b
Max(a, b) == IF a > b THEN a ELSE b
Abs(a) == IF a < 0 THEN -a ELSE a

InSeq(x, s) == \E i \in DOMAIN s : s[i] = x

\* every ordering of a finite set, as sequences without repetition
Orderings(S) ==
    { f \in [1..Cardinality(S) -> S] : \A i, j \in DOMAIN f : i # j => f[i] # f[j] }

\* a set of numbers as an ascending sequence
RECURSIVE Ascending(_)
Ascending(S) ==
    IF S = {} THEN << >>
    ELSE LET m == CHOOSE x \in S : \A y \in S : x <= y
         IN << m >> \o Ascending(S \ {m})

---------------------------------------------------------------------------
(* _check_loop_continuity, as a function of the list `elements` it builds  *)
(* from loop_elements (each entry the start and end of one element).       *)

\* keys of the dict `graph`, in insertion order
RECURSIVE GraphKeys(_)
GraphKeys(els) ==
    IF els = << >> THEN << >>
    ELSE LET before == GraphKeys(SubSeq(els, 1, Len(els) - 1))
             el == els[Len(els)]
             withStart == IF InSeq(el.start, before) THEN before
                          ELSE Append(before, el.start)
         IN IF InSeq(el.end, withStart) THEN withStart
            ELSE Append(withStart, el.end)

\* graph[k]['node']
\* variant: the graph links a start to its end but not an end to its start
GraphNode_OnlyForward(els, k) ==
    { els[i].end : i \in { j \in DOMAIN els : els[j].start = k } }

GraphNode(els, k) ==
    { els[i].end : i \in { j \in DOMAIN els : els[j].start = k } }
        \cup { els[i].start : i \in { j \in DOMAIN els : els[j].end = k } }

RECURSIVE dfs(_, _, _, _, _)
RECURSIVE dfsNodes(_, _, _, _, _)

\* the nested function dfs; `visited` stands for the is_visited marks, which
\* the source keeps in `graph` and which the result therefore carries
dfs(els, visited, index, cur_min, cur_max) ==
    IF index \in visited
    THEN [visited |-> visited, min |-> cur_min, max |-> cur_max]
    ELSE dfsNodes(els, visited \cup {index},
                  Ascending(GraphNode(els, index)), cur_min, cur_max)

\* the loop `for node in graph[index]['node']` of dfs
dfsNodes(els, visited, nodes, cur_min, cur_max) ==
    IF nodes = << >>
    THEN [visited |-> visited, min |-> cur_min, max |-> cur_max]
    ELSE LET node == Head(nodes)
             r == dfs(els, visited, node, Min(node, cur_min), Max(node, cur_max))
         IN dfsNodes(els, r.visited, Tail(nodes),
                     Min(r.min, cur_min), Max(r.max, cur_max))

\* the dict `connections` as the list of its values, in insertion order
RECURSIVE Connections(_, _, _)
Connections(els, keys, visited) ==
    IF keys = << >> THEN << >>
    ELSE LET i == Head(keys)
         IN IF i \in visited
            THEN Connections(els, Tail(keys), visited)
            ELSE LET r == dfs(els, visited, i, i, i)
                 IN << << r.min, r.max >> >>
                        \o Connections(els, Tail(keys), r.visited)

\* the loop `for i in connections`, from the current connector on
RECURSIVE Connect(_, _)
\* variant: the first branch extends the connector without testing that it
\* reaches the connection
Connect_NoReachTest(connector, conns) ==
    IF conns = << >> THEN [connected |-> TRUE, range |-> connector]
    ELSE LET c == Head(conns)
         IN IF connector[1] < c[1] /\ connector[2] < c[2]
            THEN Connect(<< connector[1], c[2] >>, Tail(conns))
            ELSE IF connector[1] > c[1] /\ connector[1] < c[2] /\ connector[2] > c[2]
            THEN Connect(<< c[1], connector[2] >>, Tail(conns))
            ELSE IF connector[1] <= c[1] /\ connector[2] >= c[2]
            THEN Connect(connector, Tail(conns))
            ELSE IF connector[1] > c[1] /\ connector[2] < c[2]
            THEN Connect(<< c[1], c[2] >>, Tail(conns))
            ELSE [connected |-> FALSE, range |-> << 0, 0 >>]

Connect(connector, conns) ==
    IF conns = << >> THEN [connected |-> TRUE, range |-> connector]
    ELSE LET c == Head(conns)
         IN IF connector[1] < c[1] /\ connector[2] > c[1] /\ connector[2] < c[2]
            THEN Connect(<< connector[1], c[2] >>, Tail(conns))
            ELSE IF connector[1] > c[1] /\ connector[1] < c[2] /\ connector[2] > c[2]
            THEN Connect(<< c[1], connector[2] >>, Tail(conns))
            ELSE IF connector[1] <= c[1] /\ connector[2] >= c[2]
            THEN Connect(connector, Tail(conns))
            ELSE IF connector[1] > c[1] /\ connector[2] < c[2]
            THEN Connect(<< c[1], c[2] >>, Tail(conns))
            ELSE [connected |-> FALSE, range |-> << 0, 0 >>]

_check_loop_continuity(els) ==
    LET connections == Connections(els, GraphKeys(els), {})
    IN Connect(Head(connections), connections)

---------------------------------------------------------------------------
(* The handlers of Player.  Each is a function from the state before the   *)
(* call to the state after it; the state is the record `p` of the Player's *)
(* attributes, the engine, the timeline elements and the notifications     *)
(* posted so far.  p.raised is set when the handler is left by an          *)
(* exception: the statements after the raising one do not run, the         *)
(* exception reaches the application's exception hook and no further       *)
(* handler runs.                                                           *)

\* the ids the timeline gives its hierarchies
ElementIds == DOMAIN elements
\* the media files the load command is given
Paths == {"short.ogg"}

\* what the engine reports as the length of a media file; "long.ogg" is the
\* shortest media on which a hierarchy that ends at E is not snapped
EngineDuration(path) == IF path = "long.ogg" THEN SnapWindow + E ELSE MaxTime

NoElement == [exists |-> FALSE, start |-> 0, end |-> 0, looped |-> FALSE]

\* a hierarchy from s to e that is not looped
Interval(s, e) == [exists |-> TRUE, start |-> s, end |-> e, looped |-> FALSE]

\* the fields of the Player that its notifications announce, as a listener
\* reads them
Snapshot(p) ==
    [is_media_loaded |-> p.is_media_loaded, media_path |-> p.media_path,
     duration |-> p.duration, current_time |-> p.current_time,
     is_playing |-> p.is_playing, is_looping |-> p.is_looping,
     loop_start |-> p.loop_start, loop_end |-> p.loop_end]

\* post(...): the notification is appended to what the handler has emitted;
\* its listeners run before post returns (q is p, evaluated once)
Post(p, n) ==
    CHOOSE r \in { [q EXCEPT !.posts = Append(@, n),
                             !.seen = Append(@, Snapshot(q))] : q \in {p} } : TRUE

\* Get.MEDIA_DURATION
MEDIA_DURATION(p) == p.duration

\* Get.TIMELINE_UI_ELEMENT finds no element for one of the ids
Unresolved(p, ids) == \E id \in ids : ~p.elements[id].exists

\* element.on_loop_set(flag) for every element of ids
OnLoopSet(els, ids, flag) ==
    [id \in DOMAIN els |->
        IF id \in ids THEN [els[id] EXCEPT !.looped = flag] ELSE els[id]]

\* the ids of S in the order in which `rank` lists them: the iteration
\* order of the Python set
OrderOf(S, rank) == SelectSeq(rank, LAMBDA id : id \in S)

_remove_loop_elements_UI(p) ==
    IF Unresolved(p, p.loop_elements)
    THEN [p EXCEPT !.raised = TRUE]
    ELSE [p EXCEPT !.elements = OnLoopSet(@, p.loop_elements, FALSE),
                   !.loop_elements = {}]

\* the statements every loop cancellation shares:
\*   self.is_looping = False; self._remove_loop_elements_UI();
\*   post(PLAYER_UI_UPDATE, TOGGLE_LOOP, False); post(PLAYER_CURRENT_LOOP_CHANGED, 0, 0)
\* variant: the loop is turned off but its elements are kept
LoopOff_KeepsElements(p) ==
    Post(Post([p EXCEPT !.is_looping = FALSE],
              << "PLAYER_UI_UPDATE", "TOGGLE_LOOP", FALSE >>),
         << "PLAYER_CURRENT_LOOP_CHANGED", 0, 0 >>)

LoopOff(p) ==
    LET p1 == _remove_loop_elements_UI([p EXCEPT !.is_looping = FALSE])
    IN IF p1.raised THEN p1
       ELSE Post(Post(p1, << "PLAYER_UI_UPDATE", "TOGGLE_LOOP", FALSE >>),
                 << "PLAYER_CURRENT_LOOP_CHANGED", 0, 0 >>)

\* variant: the two bounds of the window are tested with `and`
check_seek_outside_loop_BothBounds(p, time) ==
    IF p.is_looping /\ (time > p.loop_end + E /\ time < p.loop_start - E)
    THEN LoopOff(p)
    ELSE p

\* variant: the window has no tolerance E
check_seek_outside_loop_NoTolerance(p, time) ==
    IF p.is_looping /\ (time > p.loop_end \/ time < p.loop_start)
    THEN LoopOff(p)
    ELSE p

check_seek_outside_loop(p, time) ==
    IF p.is_looping /\ (time > p.loop_end + E \/ time < p.loop_start - E)
    THEN LoopOff(p)
    ELSE p

on_seek(p, time, if_paused) ==
    IF if_paused /\ p.is_playing THEN p
    ELSE LET p1 == IF p.is_media_loaded
                   THEN LET q == check_seek_outside_loop(p, time)
                        IN IF q.raised THEN q
                           ELSE [q EXCEPT !.engine_time = time]
                   ELSE p
         IN IF p1.raised THEN p1
            ELSE Post([p1 EXCEPT !.current_time = time],
                      << "PLAYER_CURRENT_TIME_CHANGED", time, "SEEK" >>)

stop(p) ==
    LET p0 == Post(p, << "PLAYER_STOPPING" >>)
    IN IF ~p0.is_playing /\ p0.current_time = 0 THEN p0
       ELSE LET p1 == [p0 EXCEPT !.engine_playing = FALSE,
                                 !.qtimer = FALSE,
                                 !.is_playing = FALSE]
                p2 == IF p1.is_looping THEN LoopOff(p1) ELSE p1
            IN IF p2.raised THEN p2
               ELSE Post(Post([p2 EXCEPT !.engine_time = p2.playback_start,
                                         !.current_time = p2.playback_start],
                              << "PLAYER_STOPPED" >>),
                         << "PLAYER_CURRENT_TIME_CHANGED", p2.playback_start, "PLAYBACK" >>)

on_media_load_done(p, path, start, end) ==
    LET p1 == [p EXCEPT !.media_path = path, !.playback_start = start]
        p2 == Post(Post(p1, << "PLAYER_URL_CHANGED", path >>),
                   << "PLAYER_CURRENT_TIME_CHANGED", 0, "LOAD" >>)
    IN [p2 EXCEPT !.is_media_loaded = TRUE]

\* `success` is what _engine_load_media returns
load_media(p, path, start, end, success) ==
    LET p1 == IF p.is_playing THEN stop(p) ELSE p
    IN IF p1.raised THEN p1
       ELSE IF ~success
       THEN Post(p1, << "DISPLAY_ERROR", "MEDIA_LOAD_FAILED", path >>)
       ELSE on_media_load_done([p1 EXCEPT !.engine_time = 0,
                                          !.engine_playing = FALSE,
                                          !.probing = TRUE],
                               path, start, end)

on_media_duration_available(p, d) ==
    Post([p EXCEPT !.playback_end = d, !.duration = d, !.probing = FALSE],
         << "PLAYER_DURATION_AVAILABLE", d >>)

\* variant: unloading leaves is_playing as it is
unload_media_KeepsPlaying(p) ==
    LET p1 == [p EXCEPT !.engine_time = 0,
                        !.engine_playing = FALSE,
                        !.probing = FALSE,
                        !.is_media_loaded = FALSE,
                        !.duration = 0,
                        !.current_time = 0,
                        !.media_path = "",
                        !.is_looping = FALSE]
        p2 == _remove_loop_elements_UI(p1)
    IN IF p2.raised THEN p2
       ELSE Post(Post(Post(p2, << "PLAYER_UI_UPDATE", "TOGGLE_LOOP", FALSE >>),
                      << "PLAYER_CURRENT_LOOP_CHANGED", 0, 0 >>),
                 << "PLAYER_MEDIA_UNLOADED" >>)

unload_media(p) ==
    LET p1 == [p EXCEPT !.engine_time = 0,
                        !.engine_playing = FALSE,
                        !.probing = FALSE,
                        !.is_media_loaded = FALSE,
                        !.duration = 0,
                        !.current_time = 0,
                        !.media_path = "",
                        !.is_playing = FALSE,
                        !.is_looping = FALSE]
        p2 == _remove_loop_elements_UI(p1)
    IN IF p2.raised THEN p2
       ELSE Post(Post(Post(p2, << "PLAYER_UI_UPDATE", "TOGGLE_LOOP", FALSE >>),
                      << "PLAYER_CURRENT_LOOP_CHANGED", 0, 0 >>),
                 << "PLAYER_MEDIA_UNLOADED" >>)

\* variant: playback is toggled without looking at media_path
toggle_play_NoMediaTest(p, toggle_is_playing) ==
    IF toggle_is_playing
    THEN LET p1 == IF p.is_looping THEN on_seek(p, p.loop_start, FALSE) ELSE p
         IN IF p1.raised THEN p1
            ELSE Post([p1 EXCEPT !.engine_playing = TRUE,
                                 !.is_playing = TRUE,
                                 !.qtimer = TRUE],
                      << "PLAYER_UNPAUSED" >>)
    ELSE Post([p EXCEPT !.engine_playing = FALSE,
                        !.qtimer = FALSE,
                        !.is_playing = FALSE],
              << "PLAYER_PAUSED" >>)

\* variant: pausing leaves the QTimer running
toggle_play_PauseKeepsTimer(p, toggle_is_playing) ==
    IF p.media_path = ""
    THEN Post(p, << "DISPLAY_ERROR", "NO_MEDIA_LOADED" >>)
    ELSE IF toggle_is_playing
    THEN LET p1 == IF p.is_looping THEN on_seek(p, p.loop_start, FALSE) ELSE p
         IN IF p1.raised THEN p1
            ELSE Post([p1 EXCEPT !.engine_playing = TRUE,
                                 !.is_playing = TRUE,
                                 !.qtimer = TRUE],
                      << "PLAYER_UNPAUSED" >>)
    ELSE Post([p EXCEPT !.engine_playing = FALSE,
                        !.is_playing = FALSE],
              << "PLAYER_PAUSED" >>)

toggle_play(p, toggle_is_playing) ==
    IF p.media_path = ""
    THEN Post(p, << "DISPLAY_ERROR", "NO_MEDIA_LOADED" >>)
    ELSE IF toggle_is_playing
    THEN LET p1 == IF p.is_looping THEN on_seek(p, p.loop_start, FALSE) ELSE p
         IN IF p1.raised THEN p1
            ELSE Post([p1 EXCEPT !.engine_playing = TRUE,
                                 !.is_playing = TRUE,
                                 !.qtimer = TRUE],
                      << "PLAYER_UNPAUSED" >>)
    ELSE Post([p EXCEPT !.engine_playing = FALSE,
                        !.qtimer = FALSE,
                        !.is_playing = FALSE],
              << "PLAYER_PAUSED" >>)

\* `rank` fixes the order in which the set loop_elements is iterated
\* variant: the end of the window is never snapped
_update_loop_elements_NoSnap(p, rank) ==
    IF p.loop_elements # {}
    THEN IF Unresolved(p, p.loop_elements) THEN [p EXCEPT !.raised = TRUE]
         ELSE
         LET order == OrderOf(p.loop_elements, rank)
             r == _check_loop_continuity(
                    [i \in DOMAIN order |->
                        [start |-> p.elements[order[i]].start,
                         end |-> p.elements[order[i]].end]])
         IN IF ~r.connected
            THEN LoopOff(Post(p, << "DISPLAY_ERROR", "Looping Error" >>))
            ELSE LET end_time ==
                         r.range[2]
                     p1 == [p EXCEPT !.elements = OnLoopSet(@, p.loop_elements, TRUE),
                                     !.is_looping = TRUE,
                                     !.loop_start = r.range[1],
                                     !.loop_end = end_time]
                 IN Post(Post(p1, << "PLAYER_UI_UPDATE", "TOGGLE_LOOP", TRUE >>),
                         << "PLAYER_CURRENT_LOOP_CHANGED", r.range[1], end_time >>)
    ELSE LET p1 == [p EXCEPT !.engine_loop = TRUE,
                             !.is_looping = TRUE,
                             !.loop_start = 0,
                             !.loop_end = MEDIA_DURATION(p)]
         IN Post(Post(p1, << "PLAYER_UI_UPDATE", "TOGGLE_LOOP", TRUE >>),
                 << "PLAYER_CURRENT_LOOP_CHANGED", 0, MEDIA_DURATION(p) >>)

\* variant: looping the whole media does not turn on the loop of the engine
_update_loop_elements_NoNativeLoop(p, rank) ==
    IF p.loop_elements # {}
    THEN IF Unresolved(p, p.loop_elements) THEN [p EXCEPT !.raised = TRUE]
         ELSE
         LET order == OrderOf(p.loop_elements, rank)
             r == _check_loop_continuity(
                    [i \in DOMAIN order |->
                        [start |-> p.elements[order[i]].start,
                         end |-> p.elements[order[i]].end]])
         IN IF ~r.connected
            THEN LoopOff(Post(p, << "DISPLAY_ERROR", "Looping Error" >>))
            ELSE LET end_time ==
                         IF Abs(r.range[2] - MEDIA_DURATION(p)) < SnapWindow
                         THEN MEDIA_DURATION(p) - E
                         ELSE r.range[2]
                     p1 == [p EXCEPT !.elements = OnLoopSet(@, p.loop_elements, TRUE),
                                     !.is_looping = TRUE,
                                     !.loop_start = r.range[1],
                                     !.loop_end = end_time]
                 IN Post(Post(p1, << "PLAYER_UI_UPDATE", "TOGGLE_LOOP", TRUE >>),
                         << "PLAYER_CURRENT_LOOP_CHANGED", r.range[1], end_time >>)
    ELSE LET p1 == [p EXCEPT !.is_looping = TRUE,
                             !.loop_start = 0,
                             !.loop_end = MEDIA_DURATION(p)]
         IN Post(Post(p1, << "PLAYER_UI_UPDATE", "TOGGLE_LOOP", TRUE >>),
                 << "PLAYER_CURRENT_LOOP_CHANGED", 0, MEDIA_DURATION(p) >>)

_update_loop_elements(p, rank) ==
    IF p.loop_elements # {}
    THEN IF Unresolved(p, p.loop_elements) THEN [p EXCEPT !.raised = TRUE]
         ELSE
         LET order == OrderOf(p.loop_elements, rank)
             r == _check_loop_continuity(
                    [i \in DOMAIN order |->
                        [start |-> p.elements[order[i]].start,
                         end |-> p.elements[order[i]].end]])
         IN IF ~r.connected
            THEN LoopOff(Post(p, << "DISPLAY_ERROR", "Looping Error" >>))
            ELSE LET end_time ==
                         IF Abs(r.range[2] - MEDIA_DURATION(p)) < SnapWindow
                         THEN MEDIA_DURATION(p) - E
                         ELSE r.range[2]
                     p1 == [p EXCEPT !.elements = OnLoopSet(@, p.loop_elements, TRUE),
                                     !.is_looping = TRUE,
                                     !.loop_start = r.range[1],
                                     !.loop_end = end_time]
                 IN Post(Post(p1, << "PLAYER_UI_UPDATE", "TOGGLE_LOOP", TRUE >>),
                         << "PLAYER_CURRENT_LOOP_CHANGED", r.range[1], end_time >>)
    ELSE LET p1 == [p EXCEPT !.engine_loop = TRUE,
                             !.is_looping = TRUE,
                             !.loop_start = 0,
                             !.loop_end = MEDIA_DURATION(p)]
         IN Post(Post(p1, << "PLAYER_UI_UPDATE", "TOGGLE_LOOP", TRUE >>),
                 << "PLAYER_CURRENT_LOOP_CHANGED", 0, MEDIA_DURATION(p) >>)

\* `selected` is what Get.TIMELINE_ELEMENTS_SELECTED yields for the
\* hierarchy timelines
toggle_loop(p, is_looping_arg, selected, rank) ==
    IF is_looping_arg
    THEN _update_loop_elements([p EXCEPT !.loop_elements = selected], rank)
    ELSE LET p1 == _remove_loop_elements_UI(
                       [p EXCEPT !.is_looping = FALSE, !.engine_loop = FALSE])
         IN IF p1.raised THEN p1
            ELSE Post(p1, << "PLAYER_CURRENT_LOOP_CHANGED", 0, 0 >>)

on_hierarchy_merge_split(p, new_units, old_units, rank) ==
    IF old_units \subseteq p.loop_elements /\ p.is_looping
    THEN _update_loop_elements(
             [p EXCEPT !.loop_elements = (@ \cup new_units) \ old_units], rank)
    ELSE p

\* variant: the window is recomputed also when no loop element remains
on_component_delete_AlwaysRecomputes(p, component_id, loop_remove, rank) ==
    IF loop_remove /\ component_id \in p.loop_elements /\ p.is_looping
    THEN _update_loop_elements(
             [p EXCEPT !.loop_elements = @ \ {component_id}], rank)
    ELSE p

on_component_delete(p, component_id, loop_remove, rank) ==
    IF loop_remove /\ component_id \in p.loop_elements /\ p.is_looping
    THEN LET p1 == [p EXCEPT !.loop_elements = @ \ {component_id}]
         IN IF p1.loop_elements = {}
            THEN Post(Post([p1 EXCEPT !.is_looping = FALSE],
                           << "PLAYER_UI_UPDATE", "TOGGLE_LOOP", FALSE >>),
                      << "PLAYER_CURRENT_LOOP_CHANGED", 0, 0 >>)
            ELSE _update_loop_elements(p1, rank)
    ELSE p

on_component_set_data(p, component_id, rank) ==
    IF component_id \in p.loop_elements /\ p.is_looping
    THEN _update_loop_elements(p, rank)
    ELSE p

cancel_loop(p) ==
    IF p.is_looping
    THEN _remove_loop_elements_UI([p EXCEPT !.is_looping = FALSE])
    ELSE p

\* variant: the loop wraps around only beyond loop_end
check_not_loop_back_StrictlyBeyond(p, time) ==
    ~(p.is_looping /\ time > p.loop_end)

check_not_loop_back(p, time) == ~(p.is_looping /\ time >= p.loop_end)

\* `now` is what _engine_get_current_time returns
\* variant: the tick never tests for the end of the playback window
_play_loop_NeverStops(p, now) ==
    LET p1 == [p EXCEPT !.engine_time = now,
                        !.current_time = now - p.playback_start]
    IN IF ~check_not_loop_back(p1, p1.current_time)
       THEN on_seek(p1, p1.loop_start, FALSE)
       ELSE Post(p1, << "PLAYER_CURRENT_TIME_CHANGED",
                        p1.current_time, "PLAYBACK" >>)

_play_loop(p, now) ==
    LET p1 == [p EXCEPT !.engine_time = now,
                        !.current_time = now - p.playback_start]
    IN IF ~check_not_loop_back(p1, p1.current_time)
       THEN on_seek(p1, p1.loop_start, FALSE)
       ELSE LET p2 == Post(p1, << "PLAYER_CURRENT_TIME_CHANGED",
                                  p1.current_time, "PLAYBACK" >>)
            IN IF p2.current_time >= p2.playback_end - p2.playback_start
               THEN stop(p2)
               ELSE p2

---------------------------------------------------------------------------
(* The state machine *)

\* the times at which the hierarchies made for a media of length d start
\* and end
Marks(d) == {0, E, d - E - 1, d - 1, d}

\* the times a seek may request
SeekTimes == -1..(MaxTime + 1)

\* the window starts a load may request
Starts == {0, 2}

NoResult == [connected |-> FALSE, range |-> << >>]

\* the state a handler starts from: nothing posted yet, nothing raised
Cur ==
    [is_media_loaded |-> is_media_loaded, duration |-> duration,
     playback_start |-> playback_start, playback_end |-> playback_end,
     current_time |-> current_time, media_path |-> media_path,
     is_playing |-> is_playing, is_looping |-> is_looping,
     loop_start |-> loop_start, loop_end |-> loop_end,
     loop_elements |-> loop_elements, qtimer |-> qtimer,
     engine_time |-> engine_time, engine_playing |-> engine_playing,
     engine_loop |-> engine_loop, probing |-> probing,
     elements |-> elements, posts |-> << >>, seen |-> << >>,
     raised |-> FALSE]

\* the state a handler leaves behind
Commit(p) ==
    /\ is_media_loaded' = p.is_media_loaded
    /\ duration' = p.duration
    /\ playback_start' = p.playback_start
    /\ playback_end' = p.playback_end
    /\ current_time' = p.current_time
    /\ media_path' = p.media_path
    /\ is_playing' = p.is_playing
    /\ is_looping' = p.is_looping
    /\ loop_start' = p.loop_start
    /\ loop_end' = p.loop_end
    /\ loop_elements' = p.loop_elements
    /\ qtimer' = p.qtimer
    /\ engine_time' = p.engine_time
    /\ engine_playing' = p.engine_playing
    /\ engine_loop' = p.engine_loop
    /\ probing' = p.probing
    /\ elements' = p.elements
    /\ posts' = p.posts
    /\ seen' = p.seen
    /\ raised' = p.raised

\* those with an id in `ids` of three edge-adjacent hierarchies that cover
\* a media of length d
InitialElements(d, ids) ==
    [id \in 1..NumElements |->
        IF id \notin ids THEN NoElement
        ELSE IF id = 1 THEN Interval(0, E)
        ELSE IF id = 2 THEN Interval(E, d - 1)
        ELSE IF id = 3 THEN Interval(d - 1, d)
        ELSE NoElement]

\* Player.__init__
Init ==
    /\ is_media_loaded = FALSE
    /\ duration = 0
    /\ playback_start = 0
    /\ playback_end = 0
    /\ current_time = 0
    /\ media_path = ""
    /\ is_playing = FALSE
    /\ is_looping = FALSE
    /\ loop_start = 0
    /\ loop_end = 0
    /\ loop_elements = {}
    /\ qtimer = FALSE
    /\ engine_time = 0
    /\ engine_playing = FALSE
    /\ engine_loop = FALSE
    /\ probing = FALSE
    /\ elements = InitialElements(MaxTime, {2})
    /\ posts = << >>
    /\ seen = << >>
    /\ last = [op |-> "__init__", args |-> << >>]
    /\ raised = FALSE
    /\ cc_elements = << >>
    /\ cc_result = NoResult

\* Post.PLAYER_REQUEST_TO_LOAD_MEDIA
LoadMedia ==
    /\ ~raised
    /\ \E path \in Paths, start \in Starts, success \in BOOLEAN :
        /\ \E q \in { load_media(Cur, path, start, 0, success) } : Commit(q)
        /\ last' = [op |-> "load_media", args |-> << path, start, success >>]
        /\ UNCHANGED << cc_elements, cc_result >>

\* the engine reports the duration of the media it has loaded
MediaDurationAvailable ==
    /\ ~raised
    /\ probing
    /\ \E q \in { on_media_duration_available(
                    Cur, EngineDuration(media_path)) } : Commit(q)
    /\ last' = [op |-> "on_media_duration_available",
                args |-> << EngineDuration(media_path) >>]
    /\ UNCHANGED << cc_elements, cc_result >>

\* Post.PLAYER_REQUEST_TO_UNLOAD_MEDIA
UnloadMedia ==
    /\ ~raised
    /\ \E q \in { unload_media(Cur) } : Commit(q)
    /\ last' = [op |-> "unload_media", args |-> << >>]
    /\ UNCHANGED << cc_elements, cc_result >>

\* Post.PLAYER_TOGGLE_PLAY_PAUSE
TogglePlay ==
    /\ ~raised
    /\ \E toggle_is_playing \in BOOLEAN :
        /\ \E q \in { toggle_play(Cur, toggle_is_playing) } : Commit(q)
        /\ last' = [op |-> "toggle_play", args |-> << toggle_is_playing >>]
        /\ UNCHANGED << cc_elements, cc_result >>

\* Post.PLAYER_STOP
Stop ==
    /\ ~raised
    /\ \E q \in { stop(Cur) } : Commit(q)
    /\ last' = [op |-> "stop", args |-> << >>]
    /\ UNCHANGED << cc_elements, cc_result >>

\* Post.PLAYER_TOGGLE_LOOP
ToggleLoop ==
    /\ ~raised
    /\ \E is_looping_arg \in BOOLEAN,
          selected \in SUBSET { id \in ElementIds : elements[id].exists } :
       \E rank \in Orderings(selected) :
        /\ ~is_looping_arg => selected = {}
        /\ \E q \in { toggle_loop(Cur, is_looping_arg, selected, rank) } : Commit(q)
        /\ last' = [op |-> "toggle_loop", args |-> << is_looping_arg, selected >>]
        /\ UNCHANGED << cc_elements, cc_result >>

\* Post.PLAYER_SEEK and Post.PLAYER_SEEK_IF_NOT_PLAYING
Seek ==
    /\ ~raised
    /\ \E time \in SeekTimes, if_paused \in BOOLEAN :
        /\ \E q \in { on_seek(Cur, time, if_paused) } : Commit(q)
        /\ last' = [op |-> "on_seek", args |-> << time, if_paused /\ is_playing >>]
        /\ UNCHANGED << cc_elements, cc_result >>

\* the times the engine may report at the next timeout of the QTimer
EngineNow ==
    IF engine_playing
    THEN { Min(engine_time + d, Max(engine_time, EngineDuration(media_path)))
             : d \in 0..MaxStep }
    ELSE { engine_time }

\* QTimer.timeout
Tick ==
    /\ ~raised
    /\ qtimer
    /\ \E now \in EngineNow :
        /\ \E q \in { _play_loop(Cur, now) } : Commit(q)
        /\ last' = [op |-> "_play_loop", args |-> << now >>]
    /\ UNCHANGED << cc_elements, cc_result >>

\* Post.EDIT_UNDO and Post.EDIT_REDO
UndoRedo ==
    /\ ~raised
    /\ \E q \in { cancel_loop(Cur) } : Commit(q)
    /\ last' = [op |-> "cancel_loop", args |-> << >>]
    /\ UNCHANGED << cc_elements, cc_result >>

\* the times at which the edits of the timeline put starts and ends
EditMarks == Marks(EngineDuration("long.ogg"))

\* the ids no element has and loop_elements does not hold
FreeIds == { id \in ElementIds : ~elements[id].exists /\ id \notin loop_elements }

\* the id the timeline gives the next hierarchy it creates, `taken` being
\* the ids it has given out in the same edit; 0 when the ids have run out
NewId(taken) ==
    IF FreeIds \ taken = {} THEN 0
    ELSE CHOOSE id \in FreeIds \ taken : \A other \in FreeIds \ taken : id <= other

\* the ids a recomputation of the loop may iterate over after an edit that
\* creates new_units
Iterated(new_units) == IF is_looping THEN loop_elements \cup new_units ELSE {}

\* the timeline has one level: the hierarchy from s to e overlaps none of
\* the hierarchies other than `id`
Fits(id, s, e) ==
    \A other \in ElementIds \ {id} :
        elements[other].exists =>
            elements[other].end <= s \/ e <= elements[other].start

\* a hierarchy is created on the timeline; the Player is not told
CreateElement ==
    /\ ~raised
    /\ \E id \in { NewId({}) } \cap ElementIds, s \in EditMarks, e \in EditMarks :
        /\ s < e
        /\ Fits(id, s, e)
        /\ elements' = [elements EXCEPT ![id] = Interval(s, e)]
        /\ posts' = << >>
        /\ seen' = << >>
        /\ raised' = FALSE
        /\ last' = [op |-> "create", args |-> << id >>]
        /\ UNCHANGED << is_media_loaded, duration, playback_start,
                        playback_end, current_time, media_path, is_playing,
                        is_looping, loop_start, loop_end, loop_elements,
                        qtimer, engine_time, engine_playing, engine_loop,
                        probing, cc_elements, cc_result >>

\* a hierarchy is split in two, then Post.HIERARCHY_MERGE_SPLIT_DONE
Split ==
    /\ ~raised
    /\ \E old \in ElementIds, at \in EditMarks :
        /\ elements[old].exists
        /\ elements[old].start < at /\ at < elements[old].end
        /\ \E n1 \in { NewId({}) } \cap ElementIds :
           \E n2 \in { NewId({n1}) } \cap ElementIds :
           \E rank \in Orderings(Iterated({n1, n2})) :
           \E q \in { on_hierarchy_merge_split(
                        [Cur EXCEPT !.elements =
                            [@ EXCEPT ![old] = NoElement,
                                      ![n1] = Interval(elements[old].start, at),
                                      ![n2] = Interval(at, elements[old].end)]],
                        {n1, n2}, {old}, rank) } :
                /\ Commit(q)
                /\ last' = [op |-> "split", args |-> << {n1, n2}, {old} >>]
    /\ UNCHANGED << cc_elements, cc_result >>

\* two adjacent hierarchies are merged, then Post.HIERARCHY_MERGE_SPLIT_DONE
Merge ==
    /\ ~raised
    /\ \E o1 \in ElementIds, o2 \in ElementIds :
        /\ elements[o1].exists /\ elements[o2].exists
        /\ elements[o1].end = elements[o2].start
        /\ \E new \in { NewId({}) } \cap ElementIds :
           \E rank \in Orderings(Iterated({new})) :
           \E q \in { on_hierarchy_merge_split(
                        [Cur EXCEPT !.elements =
                            [@ EXCEPT ![o1] = NoElement,
                                      ![o2] = NoElement,
                                      ![new] = Interval(elements[o1].start,
                                                        elements[o2].end)]],
                        {new}, {o1, o2}, rank) } :
                /\ Commit(q)
                /\ last' = [op |-> "merge", args |-> << {new}, {o1, o2} >>]
    /\ UNCHANGED << cc_elements, cc_result >>

\* a hierarchy is deleted, then Post.TIMELINE_COMPONENT_DELETED
ComponentDelete ==
    /\ ~raised
    /\ \E id \in ElementIds, loop_remove \in BOOLEAN :
        /\ elements[id].exists
        /\ \E rank \in Orderings(Iterated({})) :
           \E q \in { on_component_delete(
                        [Cur EXCEPT !.elements = [@ EXCEPT ![id] = NoElement]],
                        id, loop_remove, rank) } :
                /\ Commit(q)
                /\ last' = [op |-> "on_component_delete",
                            args |-> << id, loop_remove >>]
    /\ UNCHANGED << cc_elements, cc_result >>

\* the start or the end of a hierarchy is edited, then
\* Post.TIMELINE_COMPONENT_SET_DATA_DONE
ComponentSetData ==
    /\ ~raised
    /\ \E id \in ElementIds, s \in EditMarks, e \in EditMarks :
        /\ elements[id].exists
        /\ s < e
        /\ (s = elements[id].start) # (e = elements[id].end)
        /\ Fits(id, s, e)
        /\ \E rank \in Orderings(Iterated({})) :
           \E q \in { on_component_set_data(
                        [Cur EXCEPT !.elements =
                            [@ EXCEPT ![id].start = s, ![id].end = e]],
                        id, rank) } :
                /\ Commit(q)
                /\ last' = [op |-> "on_component_set_data", args |-> << id >>]
    /\ UNCHANGED << cc_elements, cc_result >>

\* The transport commands, the loop commands and the timer, with one
\* hierarchy on the timeline, from E to just before the end of "short.ogg".
Next ==
    \/ LoadMedia
    \/ MediaDurationAvailable
    \/ UnloadMedia
    \/ TogglePlay
    \/ Stop
    \/ ToggleLoop
    \/ Seek
    \/ Tick
    \/ UndoRedo

Spec == Init /\ [][Next]_vars

---------------------------------------------------------------------------
(* Playback left alone: while the media plays with no loop active no       *)
(* request arrives; the timer keeps firing, the engine's time keeps        *)
(* advancing and the engine may still report the duration.                 *)

Unattended == is_playing /\ ~is_looping

\* QTimer.timeout with the engine's time advanced, or ending the playback
PlayoutTick ==
    /\ Unattended
    /\ Tick
    /\ engine_time' > engine_time \/ ~is_playing'

PlayoutDuration == Unattended /\ MediaDurationAvailable

PlayoutCommand == ~Unattended /\ Next

PlayoutNext == PlayoutTick \/ PlayoutDuration \/ PlayoutCommand

\* the QTimer fires every UPDATE_INTERVAL ms while it is armed, and the
\* engine reports the duration of a media it has loaded
PlayoutSpec ==
    /\ Init
    /\ [][PlayoutNext]_vars
    /\ WF_vars(PlayoutTick)
    /\ WF_vars(PlayoutDuration)

---------------------------------------------------------------------------
(* The loop engine while the timeline is edited: the media "long.ogg" has  *)
(* been loaded and its duration reported, and playback has not started.    *)

EditInit ==
    /\ is_media_loaded = TRUE
    /\ duration = EngineDuration("long.ogg")
    /\ playback_start = 0
    /\ playback_end = EngineDuration("long.ogg")
    /\ current_time = 0
    /\ media_path = "long.ogg"
    /\ is_playing = FALSE
    /\ is_looping = FALSE
    /\ loop_start = 0
    /\ loop_end = 0
    /\ loop_elements = {}
    /\ qtimer = FALSE
    /\ engine_time = 0
    /\ engine_playing = FALSE
    /\ engine_loop = FALSE
    /\ probing = FALSE
    /\ elements = InitialElements(EngineDuration("long.ogg"), {1, 2, 3})
    /\ posts = << << "PLAYER_DURATION_AVAILABLE", EngineDuration("long.ogg") >> >>
    /\ last = [op |-> "on_media_duration_available",
               args |-> << EngineDuration("long.ogg") >>]
    /\ raised = FALSE
    /\ cc_elements = << >>
    /\ cc_result = NoResult
    /\ seen = << Snapshot(Cur) >>

EditNext ==
    \/ ToggleLoop
    \/ UndoRedo
    \/ CreateElement
    \/ Split
    \/ Merge
    \/ ComponentDelete
    \/ ComponentSetData

EditSpec == EditInit /\ [][EditNext]_vars

---------------------------------------------------------------------------
(* The loop engine while the timeline is restructured: the three           *)
(* hierarchies that cover "long.ogg" are split, merged and deleted, and    *)
(* the timeline has one more id to give than in EditSpec.                  *)

RestructureInit ==
    /\ is_media_loaded = TRUE
    /\ duration = EngineDuration("long.ogg")
    /\ playback_start = 0
    /\ playback_end = EngineDuration("long.ogg")
    /\ current_time = 0
    /\ media_path = "long.ogg"
    /\ is_playing = FALSE
    /\ is_looping = FALSE
    /\ loop_start = 0
    /\ loop_end = 0
    /\ loop_elements = {}
    /\ qtimer = FALSE
    /\ engine_time = 0
    /\ engine_playing = FALSE
    /\ engine_loop = FALSE
    /\ probing = FALSE
    /\ elements =
         [id \in 1..(NumElements + 1) |->
            IF id <= NumElements
            THEN InitialElements(EngineDuration("long.ogg"), 1..NumElements)[id]
            ELSE NoElement]
    /\ posts = << << "PLAYER_DURATION_AVAILABLE", EngineDuration("long.ogg") >> >>
    /\ last = [op |-> "on_media_duration_available",
               args |-> << EngineDuration("long.ogg") >>]
    /\ raised = FALSE
    /\ cc_elements = << >>
    /\ cc_result = NoResult
    /\ seen = << Snapshot(Cur) >>

RestructureNext ==
    \/ ToggleLoop
    \/ Split
    \/ Merge
    \/ ComponentDelete

RestructureSpec == RestructureInit /\ [][RestructureNext]_vars

---------------------------------------------------------------------------
(* The end of a session of timeline edits: "long.ogg" is loaded and was    *)
(* paused at time E; the timeline is edited and the loop toggled, until    *)
(* one stop, seek or unload command arrives.                               *)

TeardownInit ==
    /\ is_media_loaded = TRUE
    /\ duration = EngineDuration("long.ogg")
    /\ playback_start = 0
    /\ playback_end = EngineDuration("long.ogg")
    /\ current_time = E
    /\ media_path = "long.ogg"
    /\ is_playing = FALSE
    /\ is_looping = FALSE
    /\ loop_start = 0
    /\ loop_end = 0
    /\ loop_elements = {}
    /\ qtimer = FALSE
    /\ engine_time = E
    /\ engine_playing = FALSE
    /\ engine_loop = FALSE
    /\ probing = FALSE
    /\ elements = InitialElements(EngineDuration("long.ogg"), {1, 2, 3})
    /\ posts = << << "PLAYER_PAUSED" >> >>
    /\ last = [op |-> "toggle_play", args |-> << FALSE >>]
    /\ raised = FALSE
    /\ cc_elements = << >>
    /\ cc_result = NoResult
    /\ seen = << Snapshot(Cur) >>

\* no stop, seek or unload command has arrived yet
Editing == last.op \notin {"stop", "on_seek", "unload_media"}

TeardownEdit == Editing /\ EditNext

TeardownStop == Editing /\ Stop

TeardownUnload == Editing /\ UnloadMedia

\* Post.PLAYER_SEEK with the smallest or the largest of the seek times
TeardownSeek ==
    /\ Editing
    /\ ~raised
    /\ \E time \in { t \in SeekTimes : t < 0 \/ t > MaxTime } :
        /\ \E q \in { on_seek(Cur, time, FALSE) } : Commit(q)
        /\ last' = [op |-> "on_seek", args |-> << time, FALSE >>]
        /\ UNCHANGED << cc_elements, cc_result >>

TeardownNext ==
    \/ TeardownEdit
    \/ TeardownStop
    \/ TeardownSeek
    \/ TeardownUnload

TeardownSpec == TeardownInit /\ [][TeardownNext]_vars

---------------------------------------------------------------------------
(* _check_loop_continuity on its own: every list of at most MaxIntervals   *)
(* elements with start < end in 0..MaxPoint, in every order.               *)

ContinuityIntervals ==
    { r \in [start : 0..MaxPoint, end : 0..MaxPoint] : r.start < r.end }

ContinuityInputs ==
    UNION { [1..n -> ContinuityIntervals] : n \in 1..MaxIntervals }

ContinuityInit ==
    /\ is_media_loaded = FALSE
    /\ duration = 0
    /\ playback_start = 0
    /\ playback_end = 0
    /\ current_time = 0
    /\ media_path = ""
    /\ is_playing = FALSE
    /\ is_looping = FALSE
    /\ loop_start = 0
    /\ loop_end = 0
    /\ loop_elements = {}
    /\ qtimer = FALSE
    /\ engine_time = 0
    /\ engine_playing = FALSE
    /\ engine_loop = FALSE
    /\ probing = FALSE
    /\ elements = InitialElements(MaxTime, {2})
    /\ posts = << >>
    /\ seen = << >>
    /\ last = [op |-> "__init__", args |-> << >>]
    /\ raised = FALSE
    /\ cc_elements \in ContinuityInputs
    /\ cc_result = NoResult

CheckLoopContinuity ==
    /\ cc_result = NoResult
    /\ cc_result' = _check_loop_continuity(cc_elements)
    /\ last' = [op |-> "_check_loop_continuity", args |-> << >>]
    /\ UNCHANGED << is_media_loaded, duration, playback_start, playback_end,
                    current_time, media_path, is_playing, is_looping,
                    loop_start, loop_end, loop_elements, qtimer, engine_time,
                    engine_playing, engine_loop, probing, elements, posts,
                    seen, raised, cc_elements >>

ContinuityNext == CheckLoopContinuity

ContinuitySpec == ContinuityInit /\ [][ContinuityNext]_vars

---------------------------------------------------------------------------
(* Vocabulary of the properties *)

\* the notification n is loop-toggled(flag)
IsLoopToggled(n, flag) ==
    n[1] = "PLAYER_UI_UPDATE" /\ n[2] = "TOGGLE_LOOP" /\ n[3] = flag

\* the notification n is loop-changed(a, b)
IsLoopChanged(n, a, b) ==
    n[1] = "PLAYER_CURRENT_LOOP_CHANGED" /\ n[2] = a /\ n[3] = b

\* the notification n is one of the two loop notifications
IsLoopNotification(n) ==
    n[1] \in {"PLAYER_UI_UPDATE", "PLAYER_CURRENT_LOOP_CHANGED"}

\* ns holds loop-toggled(false) and, later, loop-changed(0, 0)
LoopOffAnnounced(ns) ==
    \E i, j \in DOMAIN ns :
        i < j /\ IsLoopToggled(ns[i], FALSE) /\ IsLoopChanged(ns[j], 0, 0)

\* two intervals share an endpoint
Linked(a, b) ==
    a.start = b.start \/ a.start = b.end \/ a.end = b.start \/ a.end = b.end

\* the indices of els that chains of shared endpoints reach from S
RECURSIVE Chained(_, _)
Chained(els, S) ==
    LET T == S \cup { j \in DOMAIN els : \E i \in S : Linked(els[i], els[j]) }
    IN IF T = S THEN S ELSE Chained(els, T)

\* the intervals of els are endpoint-chained into one span
EndpointChained(els) == Chained(els, {1}) = DOMAIN els

\* the union of the intervals of els has a gap: some interval ends at a
\* time t that no interval contains beyond, while another starts after t
HasGap(els) ==
    \E i \in DOMAIN els :
        /\ \E j \in DOMAIN els : els[j].start > els[i].end
        /\ \A j \in DOMAIN els :
               els[j].end <= els[i].end \/ els[j].start > els[i].end

MinStart(els) ==
    CHOOSE m \in { els[i].start : i \in DOMAIN els } :
        \A i \in DOMAIN els : m <= els[i].start

MaxEnd(els) ==
    CHOOSE m \in { els[i].end : i \in DOMAIN els } :
        \A i \in DOMAIN els : m >= els[i].end

\* the continuity check has run on cc_elements
Checked == cc_result # NoResult

---------------------------------------------------------------------------
(* Properties *)

\* C1: after stop() returns, from any state, is_looping is false and
\* current_time equals playback_start.
C1_StopCancelsLoopAndRewinds ==
    (last.op = "stop" /\ ~raised) =>
        (~is_looping /\ current_time = playback_start)

\* C2: for every set of intervals whose union is one gap-free span the
\* continuity check returns true, in whatever order the intervals are
\* processed.
C2_GapFreeIsConnectedInEveryOrder ==
    (Checked /\ ~HasGap(cc_elements)) => cc_result.connected

\* C3: for intervals that are endpoint-chained into one span, in any order,
\* the continuity check returns true with the smallest start and the largest
\* end.
C3_ChainedSpanIsFound ==
    (Checked /\ EndpointChained(cc_elements)) =>
        cc_result = [connected |-> TRUE,
                     range |-> << MinStart(cc_elements), MaxEnd(cc_elements) >>]

\* three chained intervals, given out of order, have been checked
C3_Witness ==
    /\ Checked
    /\ EndpointChained(cc_elements)
    /\ Len(cc_elements) = 3
    /\ cc_elements[1].start > cc_elements[3].start
    /\ cc_elements[3].start > cc_elements[2].start

\* C4: for intervals whose union has two components separated by a
\* positive gap the continuity check returns (false, [0, 0]), in any order.
C4_GapIsDisjunct ==
    (Checked /\ HasGap(cc_elements)) =>
        cc_result = [connected |-> FALSE, range |-> << 0, 0 >>]

\* three intervals have been checked, of which the first two overlap
\* without sharing an endpoint and the third lies beyond a gap
C4_Witness ==
    /\ Checked
    /\ HasGap(cc_elements)
    /\ Len(cc_elements) = 3
    /\ cc_elements[1].start < cc_elements[2].start
    /\ cc_elements[2].start < cc_elements[1].end
    /\ cc_elements[1].end < cc_elements[2].end
    /\ cc_elements[2].end < cc_elements[3].start

\* C5: whenever is_looping is true, loop_start <= loop_end.
C5_LoopWindowOrdered == is_looping => loop_start <= loop_end

\* C6: in every reachable state is_playing implies media_loaded.
C6_PlayingImpliesLoaded == is_playing => is_media_loaded

\* the media was unloaded while it was playing: the timer of the playback
\* is still running
C6_Witness ==
    last.op = "unload_media" /\ qtimer /\ ~is_playing /\ ~is_media_loaded

\* C7: whenever media is loaded, current_time lies in [0, duration].
C7_CurrentTimeInRange ==
    is_media_loaded => (0 <= current_time /\ current_time <= duration)

\* C8: after every operation the polling timer is armed if and only if
\* is_playing is true.
C8_TimerArmedIffPlaying == qtimer <=> is_playing

C10_SeekInsideKeepsLoop ==
    [][ ( /\ last'.op = "on_seek"
          /\ is_looping
          /\ loop_start - E <= last'.args[1]
          /\ last'.args[1] <= loop_end + E )
        => ( /\ is_looping'
             /\ loop_start' = loop_start
             /\ loop_end' = loop_end
             /\ loop_elements' = loop_elements
             /\ \A i \in DOMAIN posts' : ~IsLoopNotification(posts'[i]) ) ]_vars

\* a seek to exactly loop_end + E has been made while a hierarchy is looped
C10_Witness ==
    /\ last.op = "on_seek"
    /\ ~last.args[2]
    /\ is_media_loaded
    /\ is_looping
    /\ loop_elements # {}
    /\ last.args[1] = loop_end + E
    /\ current_time = last.args[1]

\* the notification n is time-changed(reason)
IsTimeChanged(n, reason) ==
    n[1] = "PLAYER_CURRENT_TIME_CHANGED" /\ n[3] = reason

\* how many notifications of ns are time-changed(reason)
TimeChangedCount(ns, reason) ==
    Cardinality({ i \in DOMAIN ns : IsTimeChanged(ns[i], reason) })

\* C11: a tick while is_looping whose engine-derived current_time is at or
\* beyond loop_end seeks to loop_start: current_time becomes loop_start, one
\* time-changed(Seek) and no time-changed(Playback) is emitted, playback is
\* not stopped and the loop remains active.
C11_TickAtLoopEndWrapsAround ==
    [][ ( /\ last'.op = "_play_loop"
          /\ is_looping
          /\ last'.args[1] - playback_start >= loop_end )
        => ( /\ current_time' = loop_start
             /\ TimeChangedCount(posts', "SEEK") = 1
             /\ TimeChangedCount(posts', "PLAYBACK") = 0
             /\ is_playing' = is_playing
             /\ is_looping' ) ]_vars

\* the smallest start of the elements with an id in ids
MinStartOf(ids) ==
    CHOOSE m \in { elements[id].start : id \in ids } :
        \A id \in ids : m <= elements[id].start

\* the largest end of the elements with an id in ids
MaxEndOf(ids) ==
    CHOOSE m \in { elements[id].end : id \in ids } :
        \A id \in ids : m >= elements[id].end

\* toggle_loop(True) has returned with a non-empty selection and the loop on
EnabledOnSelection ==
    /\ last.op = "toggle_loop"
    /\ last.args[1]
    /\ last.args[2] # {}
    /\ ~raised
    /\ is_looping

\* C12: after enable succeeds on a non-empty selection, loop_start is the
\* smallest start and loop_end the largest end of the selected regions;
\* loop_end differs from that largest end only when it is within E of the
\* media duration.
C12_WindowIsSelectionSpan ==
    EnabledOnSelection =>
        /\ loop_start = MinStartOf(last.args[2])
        /\ \/ loop_end = MaxEndOf(last.args[2])
           \/ Abs(MaxEndOf(last.args[2]) - duration) <= E

\* the handler that has just returned recomputed the loop window from a
\* non-empty loop_elements
Recomputed ==
    /\ ~raised
    /\ loop_elements # {}
    /\ \E i \in DOMAIN posts : IsLoopToggled(posts[i], TRUE)

\* C13: when the largest end of the loop elements is within E of the media
\* duration, recompute sets loop_end to duration - E.
C13_EndNearDurationIsSnapped ==
    (Recomputed /\ Abs(MaxEndOf(loop_elements) - duration) <= E) =>
        loop_end = duration - E

\* a change of the data of a loop element has recomputed a window whose
\* elements end just before the end of the media
C13_Witness ==
    /\ Recomputed
    /\ last.op = "on_component_set_data"
    /\ MaxEndOf(loop_elements) = duration - 1
    /\ loop_end = duration - E

\* toggle_loop(True) has returned with nothing selected
EnabledOnNothing ==
    /\ last.op = "toggle_loop"
    /\ last.args[1]
    /\ last.args[2] = {}
    /\ ~raised

\* C14: enable with an empty selection on media of duration D sets
\* is_looping, loop_start = 0 and loop_end = D, leaves loop_elements empty,
\* turns the loop of the engine on and emits loop-toggled(true), then
\* loop-changed(0, D).
C14_EmptySelectionLoopsWholeMedia ==
    EnabledOnNothing =>
        /\ is_looping
        /\ loop_start = 0
        /\ loop_end = duration
        /\ loop_elements = {}
        /\ engine_loop
        /\ Len(posts) = 2
        /\ IsLoopToggled(posts[1], TRUE)
        /\ IsLoopChanged(posts[2], 0, duration)

\* the whole of a loaded media whose duration is known is looped
C14_Witness ==
    /\ EnabledOnNothing
    /\ is_media_loaded
    /\ duration = MaxTime
    /\ loop_end = MaxTime
    /\ engine_loop

\* the union of the elements with an id in ids has a gap
SelectionHasGap(ids) ==
    \E i \in ids :
        /\ \E j \in ids : elements[j].start > elements[i].end
        /\ \A j \in ids :
               elements[j].end <= elements[i].end
                   \/ elements[j].start > elements[i].end

\* the notification n is the Looping Error
IsLoopingError(n) == n[1] = "DISPLAY_ERROR" /\ n[2] = "Looping Error"

\* toggle_loop(True) has returned for a selection with a gap
EnabledOnGap ==
    /\ last.op = "toggle_loop"
    /\ last.args[1]
    /\ SelectionHasGap(last.args[2])
    /\ ~raised

\* C15: enabling a loop over a selection that is not contiguous surfaces a
\* Looping Error and leaves is_looping false and loop_elements empty, with
\* loop-toggled(false), then loop-changed(0, 0) emitted, also when another
\* loop was active before.
C15_GapInSelectionDisablesLoop ==
    EnabledOnGap =>
        /\ ~is_looping
        /\ loop_elements = {}
        /\ \E i \in DOMAIN posts : IsLoopingError(posts[i])
        /\ LoopOffAnnounced(posts)

\* a selection with a gap has been refused while a hierarchy outside it was
\* flagged as looped: another loop was active before
C15_Witness ==
    /\ EnabledOnGap
    /\ ~is_looping
    /\ \E id \in ElementIds \ last.args[2] :
           elements[id].exists /\ elements[id].looped

\* the operations that enable the loop or recompute its window
RecomputeOps ==
    {"toggle_loop", "split", "merge", "on_component_delete",
     "on_component_set_data"}

\* C16: in enable and in every reactive recompute no LoopState field
\* (is_looping, loop_start, loop_end, loop_elements) is modified before the
\* continuity check has run and passed: a handler whose check failed, or
\* did not complete, leaves LoopState as it found it.
C16_LoopStateCommitsAfterCheck ==
    [][ ( /\ last'.op \in RecomputeOps
          /\ \/ raised'
             \/ \E i \in DOMAIN posts' : IsLoopingError(posts'[i]) )
        => ( /\ is_looping' = is_looping
             /\ loop_start' = loop_start
             /\ loop_end' = loop_end
             /\ loop_elements' = loop_elements ) ]_vars

\* C17: after any sequence of enable, split, merge, region-deleted and
\* data-changed notifications every member of loop_elements still resolves
\* to an existing region.
C17_LoopElementsResolve ==
    \A id \in loop_elements : elements[id].exists

\* C18: a region-deleted notification that affects the loop, for the only
\* remaining loop element while looping, makes is_looping false and
\* loop_elements empty and emits loop-toggled(false), then loop-changed(0, 0);
\* the loop does not fall back to the whole media.
C18_DeletingLastElementDisablesLoop ==
    [][ ( /\ last'.op = "on_component_delete"
          /\ last'.args[2]
          /\ is_looping
          /\ loop_elements = { last'.args[1] } )
        => ( /\ ~is_looping'
             /\ loop_elements' = {}
             /\ LoopOffAnnounced(posts')
             /\ \A i \in DOMAIN posts' : ~IsLoopToggled(posts'[i], TRUE)
             /\ engine_loop' = engine_loop ) ]_vars

\* the deletion of the last loop element has turned the loop off, without a
\* Looping Error
C18_Witness ==
    /\ last.op = "on_component_delete"
    /\ last.args[2]
    /\ ~elements[last.args[1]].exists
    /\ ~is_looping
    /\ loop_elements = {}
    /\ Len(posts) = 2
    /\ LoopOffAnnounced(posts)

\* C19: a region-deleted notification that affects the loop, for one of two
\* or more loop elements while looping, removes that element from
\* loop_elements and makes the loop window the span of the remaining elements
\* (with the boundary snap); if the remaining elements are not contiguous the
\* loop is disabled with a Looping Error.
C19_DeletingOneOfSeveralRecomputes ==
    [][ ( /\ last'.op = "on_component_delete"
          /\ last'.args[2]
          /\ is_looping
          /\ last'.args[1] \in loop_elements
          /\ loop_elements # { last'.args[1] } )
        => LET rest == loop_elements \ { last'.args[1] }
           IN IF SelectionHasGap(rest)
              THEN /\ ~is_looping'
                   /\ \E i \in DOMAIN posts' : IsLoopingError(posts'[i])
              ELSE /\ is_looping'
                   /\ loop_elements' = rest
                   /\ loop_start' = MinStartOf(rest)
                   /\ loop_end' \in { MaxEndOf(rest), duration - E } ]_vars

\* C20: after unload() every PlaybackState field (media_loaded, media_path,
\* duration, playback_start, playback_end, current_time, is_playing) has the
\* value it had at construction.
C20_UnloadResetsPlaybackState ==
    (last.op = "unload_media" /\ ~raised) =>
        /\ is_media_loaded = FALSE
        /\ media_path = ""
        /\ duration = 0
        /\ playback_start = 0
        /\ playback_end = 0
        /\ current_time = 0
        /\ is_playing = FALSE

\* C21: unload() succeeds from every state and afterwards is_playing is
\* false, media_path is empty, is_looping is false and loop_elements is
\* empty, with media-unloaded emitted last.
C21_UnloadClearsLoopAndTransport ==
    last.op = "unload_media" =>
        /\ ~raised
        /\ ~is_playing
        /\ media_path = ""
        /\ ~is_looping
        /\ loop_elements = {}
        /\ posts # << >>
        /\ posts[Len(posts)] = << "PLAYER_MEDIA_UNLOADED" >>

\* the PlaybackState fields
PlaybackState ==
    << is_media_loaded, media_path, duration, playback_start, playback_end,
       current_time, is_playing >>

\* the LoopState fields
LoopState == << is_looping, loop_start, loop_end, loop_elements >>

\* C22: when the engine fails to load the given path, a MediaLoadFailed
\* error is displayed and every PlaybackState and LoopState field is
\* unchanged from before the call, whatever the state (stopped, paused or
\* playing) in which load was issued.
C22_FailedLoadChangesNothing ==
    [][ ( last'.op = "load_media" /\ ~last'.args[3] )
        => ( /\ PlaybackState' = PlaybackState
             /\ LoopState' = LoopState
             /\ \E i \in DOMAIN posts' :
                    /\ posts'[i][1] = "DISPLAY_ERROR"
                    /\ posts'[i][2] = "MEDIA_LOAD_FAILED" ) ]_vars

\* C23: after a successful load(path, window_start), media_path = path,
\* playback_start = window_start, current_time = 0 and media_loaded is true,
\* whatever the previous state.
C23_LoadSetsPathWindowAndTime ==
    (last.op = "load_media" /\ last.args[3] /\ ~raised) =>
        /\ media_path = last.args[1]
        /\ playback_start = last.args[2]
        /\ current_time = 0
        /\ is_media_loaded

\* the notification n is the no-media error
IsNoMediaError(n) == n[1] = "DISPLAY_ERROR" /\ n[2] = "NO_MEDIA_LOADED"

C25_SeekSetsCurrentTime ==
    [][ ( /\ last'.op = "on_seek"
          /\ ~last'.args[2]
          /\ is_media_loaded )
        => ( /\ current_time' = last'.args[1]
             /\ posts' # << >>
             /\ posts'[Len(posts')] =
                    << "PLAYER_CURRENT_TIME_CHANGED", last'.args[1], "SEEK" >>
             /\ is_playing' = is_playing ) ]_vars

\* ns ends with stopped, then time-changed(t, Playback)
StoppedAnnounced(ns, t) ==
    /\ Len(ns) >= 2
    /\ ns[Len(ns) - 1] = << "PLAYER_STOPPED" >>
    /\ ns[Len(ns)] = << "PLAYER_CURRENT_TIME_CHANGED", t, "PLAYBACK" >>

\* C26: stop() issued while playing, or while paused at a non-zero time,
\* leaves is_playing false, the timer stopped and current_time equal to
\* playback_start, and emits stopped, then time-changed(playback_start,
\* Playback).
C26_StopRewindsAndAnnounces ==
    [][ ( /\ last'.op = "stop"
          /\ (is_playing \/ current_time # 0) )
        => ( /\ ~is_playing'
             /\ ~qtimer'
             /\ current_time' = playback_start
             /\ StoppedAnnounced(posts', playback_start) ) ]_vars

\* C27: an undo or redo notification received while looping sets is_looping
\* false, un-flags and empties loop_elements and emits no loop-toggled and
\* no loop-changed notification; received while not looping it changes
\* nothing. is_playing, current_time and the timer are untouched in both
\* cases.
C27_UndoRedoCancelsSilently ==
    [][ last'.op = "cancel_loop"
        => ( /\ IF is_looping
                THEN /\ ~is_looping'
                     /\ loop_elements' = {}
                     /\ \A id \in loop_elements : ~elements'[id].looped
                ELSE /\ LoopState' = LoopState
                     /\ PlaybackState' = PlaybackState
                     /\ elements' = elements
             /\ \A i \in DOMAIN posts' : ~IsLoopNotification(posts'[i])
             /\ is_playing' = is_playing
             /\ current_time' = current_time
             /\ qtimer' = qtimer ) ]_vars

\* C28: in every reachable state playback_end >= playback_start.
C28_PlaybackWindowOrdered == playback_end >= playback_start

\* the loop window is what recompute yields for loop_elements on a media of
\* the present duration
WindowOfDuration ==
    IF loop_elements = {}
    THEN loop_start = 0 /\ loop_end = duration
    ELSE /\ \A id \in loop_elements : elements[id].exists
         /\ loop_start = MinStartOf(loop_elements)
         /\ loop_end = IF Abs(MaxEndOf(loop_elements) - duration) < SnapWindow
                       THEN duration - E
                       ELSE MaxEndOf(loop_elements)

\* looped playback of a media whose duration is known, with the playback
\* window [0, duration]
LoopedPlayback ==
    /\ is_playing
    /\ is_looping
    /\ is_media_loaded
    /\ duration > 0
    /\ playback_start = 0
    /\ playback_end = duration
    /\ WindowOfDuration

\* C29: during looped playback no tick takes the end-of-media stop path:
\* is_playing stays true and the loop stays active.
C29_LoopedPlaybackNeverStops ==
    [][ ( last'.op = "_play_loop" /\ LoopedPlayback )
        => ( /\ is_playing'
             /\ is_looping'
             /\ qtimer'
             /\ \A i \in DOMAIN posts' : posts'[i][1] # "PLAYER_STOPPED" ) ]_vars

\* a tick at the very end of the media has wrapped around to loop_start
C29_Witness ==
    /\ last.op = "_play_loop"
    /\ last.args[1] = duration
    /\ LoopedPlayback
    /\ current_time = loop_start
    /\ TimeChangedCount(posts, "SEEK") = 1

\* playback has been stopped by a tick: not playing, the timer disarmed and
\* the current time back at the start of the playback window
StoppedByTick ==
    /\ last.op = "_play_loop"
    /\ ~is_playing
    /\ ~qtimer
    /\ current_time = playback_start

\* C30: media playing with no loop active, left alone while the engine's
\* time advances, is eventually stopped by a tick: is_playing is false, the
\* timer is disarmed and current_time = playback_start.
C30_UnattendedPlaybackStops == Unattended ~> StoppedByTick

\* a tick at the end of a media loaded with a non-zero start has stopped the
\* playback
C30_Witness ==
    /\ StoppedByTick
    /\ last.args[1] = duration
    /\ duration > 0
    /\ playback_start > 0
    /\ playback_end = duration
    /\ StoppedAnnounced(posts, playback_start)

\* the union of the intervals that els gives the ids has a gap
GapIn(els, ids) ==
    \E i \in ids :
        /\ \E j \in ids : els[j].start > els[i].end
        /\ \A j \in ids : els[j].end <= els[i].end \/ els[j].start > els[i].end

\* the smallest start that els gives the ids
MinStartIn(els, ids) ==
    CHOOSE m \in { els[id].start : id \in ids } :
        \A id \in ids : m <= els[id].start

\* the largest end that els gives the ids
MaxEndIn(els, ids) ==
    CHOOSE m \in { els[id].end : id \in ids } :
        \A id \in ids : m >= els[id].end

\* C31: once the data-changed notification for an edited loop element has
\* been handled, loop_start and loop_end are the recomputed window of the
\* current intervals of the loop elements (with the boundary snap), or the
\* loop is disabled with a Looping Error when they are no longer contiguous;
\* a data-changed notification for a region that is not a loop element leaves
\* LoopState unchanged.
C31_DataChangeRecomputesWindow ==
    [][ last'.op = "on_component_set_data"
        => IF is_looping /\ last'.args[1] \in loop_elements
           THEN IF GapIn(elements', loop_elements)
                THEN /\ ~is_looping'
                     /\ \E i \in DOMAIN posts' : IsLoopingError(posts'[i])
                ELSE /\ is_looping'
                     /\ loop_elements' = loop_elements
                     /\ loop_start' = MinStartIn(elements', loop_elements)
                     /\ loop_end' \in { MaxEndIn(elements', loop_elements),
                                        duration - E }
           ELSE LoopState' = LoopState ]_vars

\* C32: on a split or merge notification while looping over regions, if
\* every removed region is a loop element, loop_elements becomes
\* (loop_elements minus the removed regions) plus the new regions and the
\* window is recomputed, so that a split leaves is_looping true and
\* loop_start and loop_end unchanged; if some removed region is not a loop
\* element, LoopState is unchanged.
C32_SplitMergeReplacesLoopElements ==
    [][ ( /\ last'.op \in {"split", "merge"}
          /\ is_looping
          /\ loop_elements # {} )
        => LET new_units == last'.args[1]
               old_units == last'.args[2]
               ids == (loop_elements \ old_units) \cup new_units
           IN IF old_units \subseteq loop_elements
              THEN /\ is_looping'
                   /\ loop_elements' = ids
                   /\ loop_start' = MinStartIn(elements', ids)
                   /\ loop_end' \in { MaxEndIn(elements', ids), duration - E }
                   /\ last'.op = "split"
                        => loop_start' = loop_start /\ loop_end' = loop_end
              ELSE LoopState' = LoopState ]_vars

\* C33: set_playing(true) issued while a loop is active, with a media
\* loaded, first seeks to loop_start: afterwards is_playing is true, the
\* timer is armed, current_time = loop_start and the loop is still active
\* with the same window.
C33_PlayInLoopStartsAtLoopStart ==
    [][ ( /\ last'.op = "toggle_play"
          /\ last'.args[1]
          /\ is_looping
          /\ media_path # "" )
        => ( /\ is_playing'
             /\ qtimer'
             /\ current_time' = loop_start
             /\ LoopState' = LoopState ) ]_vars

\* C34: the loop-disable command, toggle_loop(False), issued in any looping
\* state sets is_looping false, un-flags and empties loop_elements, and emits
\* both loop-toggled(false) and loop-changed(0, 0).
C34_DisableClearsAndAnnounces ==
    [][ ( /\ last'.op = "toggle_loop"
          /\ ~last'.args[1]
          /\ is_looping )
        => ( /\ ~is_looping'
             /\ loop_elements' = {}
             /\ \A id \in loop_elements : ~elements'[id].looped
             /\ \E i \in DOMAIN posts' : IsLoopToggled(posts'[i], FALSE)
             /\ \E i \in DOMAIN posts' : IsLoopChanged(posts'[i], 0, 0) ) ]_vars

\* the state s that the listeners of the notification n find holds what n
\* announces
Announced(n, s) ==
    /\ n[1] = "PLAYER_URL_CHANGED"
         => s.is_media_loaded /\ s.media_path = n[2]
    /\ (n[1] = "PLAYER_CURRENT_TIME_CHANGED" /\ n[3] = "LOAD")
         => s.is_media_loaded
    /\ (n[1] = "PLAYER_CURRENT_TIME_CHANGED" /\ n[3] # "LOAD")
         => s.current_time = n[2]
    /\ n[1] = "PLAYER_DURATION_AVAILABLE" => s.duration = n[2]
    /\ n[1] = "PLAYER_MEDIA_UNLOADED" => ~s.is_media_loaded
    /\ n[1] \in {"PLAYER_PAUSED", "PLAYER_STOPPED"} => ~s.is_playing
    /\ n[1] = "PLAYER_UNPAUSED" => s.is_playing
    /\ n[1] = "PLAYER_UI_UPDATE" => s.is_looping = n[3]
    /\ (n[1] = "PLAYER_CURRENT_LOOP_CHANGED" /\ s.is_looping)
         => s.loop_start = n[2] /\ s.loop_end = n[3]
    /\ (n[1] = "PLAYER_CURRENT_LOOP_CHANGED" /\ ~s.is_looping)
         => n[2] = 0 /\ n[3] = 0

\* C35: within every command or tick handler each notification is emitted
\* only after the state it announces has been written: media_loaded is
\* already true when media-loaded and time-changed(Load) are emitted, and
\* is_looping, loop_start and loop_end hold their new values when
\* loop-toggled and loop-changed are emitted.
C35_StateWrittenBeforeNotification ==
    /\ Len(seen) = Len(posts)
    /\ \A i \in DOMAIN posts : Announced(posts[i], seen[i])

\* C36: set_playing(false) while playing sets is_playing false, disarms the
\* timer, emits paused and leaves current_time and LoopState unchanged; with
\* no loop active a following set_playing(true) resumes from the same
\* current_time; is_playing follows every play/pause toggle.
C36_PauseKeepsTimeAndLoop ==
    [][ /\ ( /\ last'.op = "toggle_play"
             /\ ~last'.args[1]
             /\ is_playing )
          => ( /\ ~is_playing'
               /\ ~qtimer'
               /\ posts' = << << "PLAYER_PAUSED" >> >>
               /\ current_time' = current_time
               /\ LoopState' = LoopState )
        /\ ( /\ last'.op = "toggle_play"
             /\ last'.args[1]
             /\ last.op = "toggle_play"
             /\ ~last.args[1]
             /\ media_path # ""
             /\ ~is_looping )
          => ( /\ is_playing'
               /\ qtimer'
               /\ posts' = << << "PLAYER_UNPAUSED" >> >>
               /\ current_time' = current_time
               /\ LoopState' = LoopState )
        /\ ( last'.op = "toggle_play" /\ media_path # "" )
          => is_playing' = last'.args[1] ]_vars

\* playback of a media loaded with a non-zero start has been paused at the
\* time of its first tick, a loop being active
C36_Witness ==
    /\ last.op = "toggle_play"
    /\ ~last.args[1]
    /\ posts = << << "PLAYER_PAUSED" >> >>
    /\ ~is_playing
    /\ ~qtimer
    /\ is_looping
    /\ playback_start > 0
    /\ current_time = 0 - playback_start

\* C37: after every operation, is_looping = false implies that
\* loop_elements is empty: no handler leaves loop elements behind once the
\* loop is off.
C37_LoopOffMeansNoLoopElements == ~is_looping => loop_elements = {}

\* the existing hierarchies whose display flag "is looped" is set
Flagged == { id \in ElementIds : elements[id].exists /\ elements[id].looped }

\* C38: after every operation the set of existing regions whose "is looped"
\* flag is set equals loop_elements when is_looping, and is empty otherwise.
C38_FlaggedAreLoopElements ==
    Flagged = IF is_looping THEN loop_elements ELSE {}

\* the whole media is looped
WholeMediaLoop == is_looping /\ loop_elements = {}

\* C39: after every operation the native loop flag of the engine is on if
\* and only if is_looping is true with loop_elements empty.
C39_NativeLoopIffWholeMediaLoop == engine_loop <=> WholeMediaLoop

\* C40: whenever is_looping is true with loop_elements empty, loop_start = 0
\* and loop_end is the current duration of the media.
C40_WholeMediaWindowIsDuration ==
    WholeMediaLoop => loop_start = 0 /\ loop_end = duration

=============================================================================
